---- MODULE Spec2Model ----
(***************************************************************************)
(* HealthGo factory task tracker: the pure task core of task-utils.js.     *)
(*                                                                         *)
(* A task is a record with the fields the functions read: id, name,        *)
(* executionCount, targetCount, isCompleted and the optional priority.     *)
(* An optional field is a sequence of length at most one: <<>> is a        *)
(* missing (null/undefined) priority, <<p>> a present one.                 *)
(*                                                                         *)
(* The specifications share the variables:                                 *)
(*   Spec      the completion workflow on one task, started from an active *)
(*             task with 0 <= executionCount <= targetCount;               *)
(*   SpecAny   the same operations started from an arbitrary task record   *)
(*             (completed or not, counts in or out of range), which is     *)
(*             what the functions accept;                                  *)
(*   SpecIncrements  increments only, counted, from an active task;        *)
(*   SpecSort  sortTasks applied to an arbitrary task list;                *)
(*   SpecPriority  extractPriority applied to an arbitrary comments value; *)
(*   SpecColor     getPriorityBorderColor applied to an arbitrary integer; *)
(*   SpecRender    renderTaskCard applied to an arbitrary task and flag;   *)
(*   SpecValidate  validateCredentials applied to an arbitrary email and   *)
(*             password;                                                   *)
(*   SpecApi   calls of the ApiClient settling in any order.               *)
(*                                                                         *)
(* A string is a sequence of characters; the tag "PRIORITY:" in one of its *)
(* spellings counts as one character of that sequence.                     *)
(***************************************************************************)
EXTENDS Integers, Sequences, FiniteSets

VARIABLES
  task,      \* the task value the caller currently holds
  input,     \* the task value passed to the last operation
  newCount,  \* count returned by the last counter call / passed to the prompt check
  prompt,    \* result of the last shouldTriggerCompletionPrompt evaluation
  lastOp,    \* name of the last operation applied
  tasks,     \* the list handed to sortTasks
  sorted,    \* the list sortTasks returned
  sortDone,  \* TRUE once sortTasks has returned
  comments,  \* the value handed to extractPriority
  extracted, \* <<>> before extractPriority has returned, <<priority>> after
  colorArg,  \* the priority handed to getPriorityBorderColor
  color,     \* <<>> before getPriorityBorderColor has returned, <<token>> after
  renderTask,  \* the task handed to renderTaskCard
  renderFlag,  \* the isCompleted argument handed to renderTaskCard
  card,      \* <<>> before renderTaskCard has returned, <<rendering>> after
  credentials, \* the email and password handed to validateCredentials
  validation,  \* <<>> before validateCredentials has returned, <<result>> after
  token,     \* ApiClient.token: <<>> when null/undefined, <<t>> when set
  apiCall,   \* <<>> before any ApiClient call has settled, <<the last settled call>> after
  start,     \* the task the caller started from
  steps      \* number of increments applied in the increments-only run

taskVars == <<task, input, newCount, prompt, lastOp>>
sortVars == <<tasks, sorted, sortDone>>
priorityVars == <<comments, extracted>>
renderVars == <<colorArg, color, renderTask, renderFlag, card>>
authVars == <<credentials, validation, token, apiCall>>
historyVars == <<start, steps>>

vars == <<task, input, newCount, prompt, lastOp, tasks, sorted, sortDone,
          comments, extracted, colorArg, color, renderTask, renderFlag, card,
          credentials, validation, token, apiCall, start, steps>>

(***************************************************************************)
(* Bounds of the model.                                                    *)
(***************************************************************************)
MaxCount == 3        \* largest executionCount / targetCount drawn
MaxTasks == 3        \* longest task list handed to sortTasks
PrioritySlack == 1   \* how far above the default the drawn priorities go
MaxComments == 3     \* longest comments array drawn from the list items
MaxTagValue == 15    \* largest |n| drawn for a single PRIORITY:n comment
MaxColorArg == 30    \* largest |p| handed to getPriorityBorderColor

(***************************************************************************)
(* Program constants.                                                      *)
(***************************************************************************)
DefaultPriority == 10   \* priority ?? 10

Min(a, b) == IF a <= b THEN a ELSE b
Max(a, b) == IF a >= b THEN a ELSE b

\* Counts the model draws: one below zero up to MaxCount.
CountRange == (0 - 1)..MaxCount

\* Priority values the model draws: the most urgent one and the values
\* around the default, so that a missing priority has neighbours on both sides.
PriorityValues == {1} \cup ((DefaultPriority - 1)..(DefaultPriority + PrioritySlack))
Priorities == {<<>>} \cup {<<p>> : p \in PriorityValues}

Task(i, n, ec, tc, done, p) ==
  [id |-> i, name |-> n, executionCount |-> ec, targetCount |-> tc,
   isCompleted |-> done, priority |-> p]

\* a task as renderTaskCard reads it: with the optional teamName and the
\* hasConflict flag
CardTask(t, team, conflict) ==
  [id |-> t.id, name |-> t.name, executionCount |-> t.executionCount,
   targetCount |-> t.targetCount, isCompleted |-> t.isCompleted,
   priority |-> t.priority, teamName |-> team, hasConflict |-> conflict]

\* nothing handed to the validator, no token stored, no ApiClient call settled
AuthIdle ==
  /\ credentials = [email |-> [kind |-> "null", chars |-> <<>>],
                    password |-> [kind |-> "null", chars |-> <<>>]]
  /\ validation = <<>>
  /\ token = <<>>
  /\ apiCall = <<>>

\* nothing handed to the renderer or the classifier
RenderIdle ==
  /\ colorArg = 0
  /\ color = <<>>
  /\ renderTask = CardTask(Task(1, "task", 0, 1, FALSE, <<>>), <<>>, FALSE)
  /\ renderFlag = FALSE
  /\ card = <<>>

(***************************************************************************)
(* Execution Counter.                                                      *)
(***************************************************************************)
\* mutants: the cap at targetCount dropped; the cap taken as a maximum
incrementExecutionCount_NoCap(t) ==
  IF t.isCompleted THEN t.executionCount ELSE t.executionCount + 1

incrementExecutionCount_MaxForMin(t) ==
  IF t.isCompleted
    THEN t.executionCount
    ELSE Max(t.executionCount + 1, t.targetCount)

incrementExecutionCount(t) ==
  IF t.isCompleted
    THEN t.executionCount
    ELSE Min(t.executionCount + 1, t.targetCount)

\* mutants: the completed check dropped; the floor at zero dropped
decrementExecutionCount_NoCompletedCheck(t) == Max(t.executionCount - 1, 0)

decrementExecutionCount_NoFloor(t) ==
  IF t.isCompleted THEN t.executionCount ELSE t.executionCount - 1

decrementExecutionCount(t) ==
  IF t.isCompleted
    THEN t.executionCount
    ELSE Max(t.executionCount - 1, 0)

(***************************************************************************)
(* Completion state machine.                                               *)
(***************************************************************************)
\* mutant: the completed check dropped
shouldTriggerCompletionPrompt_IgnoresCompleted(t, n) == n = t.targetCount

\* mutants: the count held before the increment compared with the target;
\* the prompt raised only when the count has just arrived at the target
shouldTriggerCompletionPrompt_StaleCount(t, n) ==
  (~t.isCompleted) /\ t.executionCount = t.targetCount

shouldTriggerCompletionPrompt_OnlyOnArrival(t, n) ==
  (~t.isCompleted) /\ n = t.targetCount /\ t.executionCount # n

shouldTriggerCompletionPrompt(t, n) ==
  (~t.isCompleted) /\ n = t.targetCount

\* mutant: the target guard dropped
confirmCompletion_Unguarded(t) == [t EXCEPT !.isCompleted = TRUE]

\* mutant: the guard written as executionCount <= targetCount
confirmCompletion_UpToTarget(t) ==
  IF t.executionCount <= t.targetCount
    THEN [t EXCEPT !.isCompleted = TRUE]
    ELSE t

\* mutant: the copy built field by field, the optional priority left out
confirmCompletion_DropsPriority(t) ==
  IF t.executionCount = t.targetCount
    THEN [t EXCEPT !.isCompleted = TRUE, !.priority = <<>>]
    ELSE t

\* { ...task, isCompleted: true } when at target, else the same task
confirmCompletion(t) ==
  IF t.executionCount = t.targetCount
    THEN [t EXCEPT !.isCompleted = TRUE]
    ELSE t

\* mutant: the task handed back as it came
declineCompletion_ReturnsTask(t) == t

\* { ...task, isCompleted: false }
declineCompletion(t) == [t EXCEPT !.isCompleted = FALSE]

\* The objects after a call: the spread builds a new object, or the argument
\* itself is handed back; no statement assigns to a field of the argument.
confirmCompletionObjects(t) == [task |-> t, result |-> confirmCompletion(t)]

declineCompletionObjects(t) == [task |-> t, result |-> declineCompletion(t)]

(***************************************************************************)
(* The caller's steps on the task it holds.  The counter functions return  *)
(* a count which the caller writes back; the prompt check is evaluated     *)
(* right after an increment with the pre-increment task and the new count. *)
(***************************************************************************)
IncrementCall ==
  /\ input' = task
  /\ newCount' = incrementExecutionCount(task)
  /\ prompt' = shouldTriggerCompletionPrompt(task, newCount')
  /\ task' = [task EXCEPT !.executionCount = newCount']
  /\ lastOp' = "increment"

Increment ==
  /\ IncrementCall
  /\ UNCHANGED <<tasks, sorted, sortDone, priorityVars, renderVars, authVars, historyVars>>

Decrement ==
  /\ input' = task
  /\ newCount' = decrementExecutionCount(task)
  /\ task' = [task EXCEPT !.executionCount = newCount']
  /\ lastOp' = "decrement"
  /\ UNCHANGED <<prompt, tasks, sorted, sortDone, priorityVars, renderVars, authVars, historyVars>>

\* shouldTriggerCompletionPrompt on the held task and any count
CheckPrompt ==
  \E n \in CountRange :
    /\ input' = task
    /\ newCount' = n
    /\ prompt' = shouldTriggerCompletionPrompt(task, n)
    /\ lastOp' = "prompt"
    /\ UNCHANGED <<task, tasks, sorted, sortDone, priorityVars, renderVars, authVars, historyVars>>

Confirm ==
  /\ input' = confirmCompletionObjects(task).task
  /\ task' = confirmCompletionObjects(task).result
  /\ lastOp' = "confirm"
  /\ UNCHANGED <<newCount, prompt, tasks, sorted, sortDone, priorityVars, renderVars, authVars, historyVars>>

Decline ==
  /\ input' = declineCompletionObjects(task).task
  /\ task' = declineCompletionObjects(task).result
  /\ lastOp' = "decline"
  /\ UNCHANGED <<newCount, prompt, tasks, sorted, sortDone, priorityVars, renderVars, authVars, historyVars>>

TaskNext == Increment \/ Decrement \/ CheckPrompt \/ Confirm \/ Decline

\* An active task inside its counter bounds (targetCount 0 included).
ActiveTasks ==
  { Task(1, "task", ec, tc, FALSE, p) :
      ec \in 0..MaxCount, tc \in 0..MaxCount, p \in Priorities }

InitTask(t) ==
  /\ task = t
  /\ input = t
  /\ newCount = t.executionCount
  /\ prompt = FALSE
  /\ lastOp = "none"
  /\ tasks = <<>>
  /\ sorted = <<>>
  /\ sortDone = FALSE
  /\ comments = [kind |-> "null", items |-> <<>>]
  /\ extracted = <<>>
  /\ AuthIdle
  /\ start = task
  /\ steps = 0
  /\ RenderIdle

Init ==
  \E t \in ActiveTasks :
    /\ t.executionCount <= t.targetCount
    /\ InitTask(t)

Spec == Init /\ [][TaskNext]_vars

\* Any task record the functions may be handed.
AnyTasks ==
  { Task(1, "task", ec, tc, done, p) :
      ec \in CountRange, tc \in CountRange, done \in BOOLEAN, p \in Priorities }

InitAny == \E t \in AnyTasks : InitTask(t)

SpecAny == InitAny /\ [][TaskNext]_vars

\* The increments-only run: the caller taps + on the task it started from,
\* again and again, and the taps are counted.
MaxSteps == MaxCount + 2

IncrementStep ==
  /\ steps < MaxSteps
  /\ IncrementCall
  /\ steps' = steps + 1
  /\ UNCHANGED <<start, tasks, sorted, sortDone, priorityVars, renderVars, authVars>>

IncrementsNext == IncrementStep

SpecIncrements == Init /\ [][IncrementsNext]_vars


(***************************************************************************)
(* Task Ordering Engine.                                                   *)
(***************************************************************************)
\* value ?? fallback on an optional value
Nullish(v, fallback) == IF v = <<>> THEN fallback ELSE v[1]

\* tasks.map((task, index) => ({ task, originalIndex: index }))
tasksWithIndex(ts) ==
  [i \in 1..Len(ts) |-> [task |-> ts[i], originalIndex |-> i - 1]]

\* mutants of the comparator: the completion partition dropped; the priority
\* difference taken the other way round
compareFn_NoPartition(a, b) ==
  LET priorityA == Nullish(a.task.priority, DefaultPriority)
      priorityB == Nullish(b.task.priority, DefaultPriority)
  IN  IF priorityA # priorityB
        THEN priorityA - priorityB
        ELSE a.originalIndex - b.originalIndex

compareFn_Descending(a, b) ==
  LET priorityA == Nullish(a.task.priority, DefaultPriority)
      priorityB == Nullish(b.task.priority, DefaultPriority)
  IN  IF a.task.isCompleted # b.task.isCompleted
        THEN (IF a.task.isCompleted THEN 1 ELSE 0 - 1)
        ELSE IF (~a.task.isCompleted) /\ priorityA # priorityB
               THEN priorityB - priorityA
               ELSE a.originalIndex - b.originalIndex

\* mutant: ties broken by the later input position first
compareFn_ReverseTie(a, b) ==
  LET priorityA == Nullish(a.task.priority, DefaultPriority)
      priorityB == Nullish(b.task.priority, DefaultPriority)
  IN  IF a.task.isCompleted # b.task.isCompleted
        THEN (IF a.task.isCompleted THEN 1 ELSE 0 - 1)
        ELSE IF (~a.task.isCompleted) /\ priorityA # priorityB
               THEN priorityA - priorityB
               ELSE b.originalIndex - a.originalIndex

\* mutants: the priority compared for completed tasks too; equal keys
\* compared as equal, without the input position
compareFn_PriorityForAll(a, b) ==
  LET priorityA == Nullish(a.task.priority, DefaultPriority)
      priorityB == Nullish(b.task.priority, DefaultPriority)
  IN  IF a.task.isCompleted # b.task.isCompleted
        THEN (IF a.task.isCompleted THEN 1 ELSE 0 - 1)
        ELSE IF priorityA # priorityB
               THEN priorityA - priorityB
               ELSE a.originalIndex - b.originalIndex

compareFn_NoTieBreak(a, b) ==
  LET priorityA == Nullish(a.task.priority, DefaultPriority)
      priorityB == Nullish(b.task.priority, DefaultPriority)
  IN  IF a.task.isCompleted # b.task.isCompleted
        THEN (IF a.task.isCompleted THEN 1 ELSE 0 - 1)
        ELSE IF (~a.task.isCompleted) /\ priorityA # priorityB
               THEN priorityA - priorityB
               ELSE 0

\* the comparator handed to sort: negative when a goes before b
compareFn(a, b) ==
  LET priorityA == Nullish(a.task.priority, DefaultPriority)
      priorityB == Nullish(b.task.priority, DefaultPriority)
  IN  IF a.task.isCompleted # b.task.isCompleted
        THEN (IF a.task.isCompleted THEN 1 ELSE 0 - 1)
        ELSE IF (~a.task.isCompleted) /\ priorityA # priorityB
               THEN priorityA - priorityB
               ELSE a.originalIndex - b.originalIndex

\* Array.prototype.sort with the comparator, as an insertion sort: each
\* element goes in front of the first element it compares below.
RECURSIVE InsertByCompare(_, _)
InsertByCompare(x, s) ==
  IF s = <<>>
    THEN <<x>>
    ELSE IF compareFn(x, Head(s)) < 0
           THEN <<x>> \o s
           ELSE <<Head(s)>> \o InsertByCompare(x, Tail(s))

RECURSIVE ArraySort(_)
ArraySort(s) ==
  IF s = <<>>
    THEN <<>>
    ELSE InsertByCompare(s[Len(s)], ArraySort(SubSeq(s, 1, Len(s) - 1)))

\* mutant: the default priority written into the tasks handed back
sortTasks_WritesPriority(ts) ==
  LET sortedWithIndex == ArraySort(tasksWithIndex(ts))
  IN  [i \in 1..Len(sortedWithIndex) |->
         [sortedWithIndex[i].task EXCEPT
            !.priority = <<Nullish(@, DefaultPriority)>>]]

sortTasks(ts) ==
  LET sortedWithIndex == ArraySort(tasksWithIndex(ts))
  IN  [i \in 1..Len(sortedWithIndex) |-> sortedWithIndex[i].task]

\* mutant: the comparator sort run on the input array itself
sortTasksArrays_InPlace(ts) ==
  [tasks |-> sortTasks(ts), result |-> sortTasks(ts)]

\* The arrays after a call of sortTasks: map() builds tasksWithIndex as a new
\* array, sort() reorders that array in place, and the final map() builds the
\* array returned; no statement writes to the input array or to a task.
sortTasksArrays(ts) ==
  [tasks |-> ts, result |-> sortTasks(ts)]

\* The caller sorts the list it holds.
SortTasks ==
  /\ sortDone = FALSE
  /\ tasks' = sortTasksArrays(tasks).tasks
  /\ sorted' = sortTasksArrays(tasks).result
  /\ sortDone' = TRUE
  /\ UNCHANGED <<task, input, newCount, prompt, lastOp, priorityVars, renderVars, authVars, historyVars>>

SortNext == SortTasks

\* Task lists of up to MaxTasks entries; the id of an entry is its position,
\* completion and priority are free.
TaskLists ==
  UNION { { [i \in 1..n |->
               Task(i, "task", IF f[i][1] THEN 1 ELSE 0, 1, f[i][1], f[i][2])] :
            f \in [1..n -> BOOLEAN \X Priorities] } : n \in 0..MaxTasks }

InitSort ==
  /\ tasks \in TaskLists
  /\ sorted = <<>>
  /\ sortDone = FALSE
  /\ task = Task(1, "task", 0, 1, FALSE, <<>>)
  /\ input = task
  /\ newCount = 0
  /\ prompt = FALSE
  /\ lastOp = "none"
  /\ comments = [kind |-> "null", items |-> <<>>]
  /\ extracted = <<>>
  /\ AuthIdle
  /\ start = task
  /\ steps = 0
  /\ RenderIdle

SpecSort == InitSort /\ [][SortNext]_vars

(***************************************************************************)
(* Priority Extractor.                                                     *)
(*                                                                         *)
(* The argument is a value of some kind; only an array has items.  An item *)
(* is a string (its characters) or something else (number, null, object).  *)
(***************************************************************************)
TagTokens == {"PRIORITY:", "priority:", "Priority:"}   \* /PRIORITY:/i
DigitChars == <<"0", "1", "2", "3", "4", "5", "6", "7", "8", "9">>
Digits == {DigitChars[i] : i \in 1..10}                \* \d
DigitValue(d) == (CHOOSE i \in 1..10 : DigitChars[i] = d) - 1

StringItem(cs) == [type |-> "string", chars |-> cs]
OtherItem == [type |-> "other", chars |-> <<>>]
ArrayOf(items) == [kind |-> "array", items |-> items]
NonArrayKinds == {"null", "undefined", "string", "number", "object"}

\* \d+ at position i: the longest run of digits starting there
RECURSIVE DigitRun(_, _)
DigitRun(s, i) ==
  IF i <= Len(s) /\ s[i] \in Digits
    THEN <<s[i]>> \o DigitRun(s, i + 1)
    ELSE <<>>

\* mutants of the pattern: no minus sign accepted; anything accepted as value
MatchAt_NoSign(s, i) ==
  IF s[i] \notin TagTokens THEN <<>> ELSE DigitRun(s, i + 1)

MatchAt_AnyValue(s, i) ==
  IF s[i] \notin TagTokens \/ i = Len(s)
    THEN <<>>
    ELSE SubSeq(s, i + 1, Len(s))

\* /PRIORITY:(-?\d+)/i tried at position i: the capture group, <<>> for no match
MatchAt(s, i) ==
  IF s[i] \notin TagTokens
    THEN <<>>
    ELSE IF i + 1 <= Len(s) /\ s[i + 1] = "-" /\ DigitRun(s, i + 2) # <<>>
           THEN <<"-">> \o DigitRun(s, i + 2)
           ELSE DigitRun(s, i + 1)

\* comment.match(...): the capture group of the leftmost match, <<>> for null
RECURSIVE RegexSearch(_, _)
RegexSearch(s, i) ==
  IF i > Len(s)
    THEN <<>>
    ELSE IF MatchAt(s, i) # <<>>
           THEN MatchAt(s, i)
           ELSE RegexSearch(s, i + 1)

RECURSIVE DigitsValue(_)
DigitsValue(ds) ==
  IF ds = <<>>
    THEN 0
    ELSE DigitsValue(SubSeq(ds, 1, Len(ds) - 1)) * 10 + DigitValue(ds[Len(ds)])

\* parseInt(text, 10): optional sign, then the leading digits; <<>> is NaN
parseInt(text) ==
  LET negative == text # <<>> /\ text[1] = "-"
      run == DigitRun(text, IF negative THEN 2 ELSE 1)
  IN  IF run = <<>>
        THEN <<>>
        ELSE <<IF negative THEN 0 - DigitsValue(run) ELSE DigitsValue(run)>>

\* mutants of the loop: an out-of-range match passed over; the fall-through
\* default taken as the most urgent priority
RECURSIVE ScanComments_SkipsOutOfRange(_, _)
ScanComments_SkipsOutOfRange(items, i) ==
  IF i > Len(items)
    THEN DefaultPriority
    ELSE IF items[i].type # "string"
           THEN ScanComments_SkipsOutOfRange(items, i + 1)
           ELSE LET match == RegexSearch(items[i].chars, 1)
                    value == parseInt(match)
                IN  IF match # <<>> /\ value # <<>>
                       /\ value[1] >= 1 /\ value[1] <= DefaultPriority
                      THEN value[1]
                      ELSE ScanComments_SkipsOutOfRange(items, i + 1)

RECURSIVE ScanComments_DefaultOne(_, _)
ScanComments_DefaultOne(items, i) ==
  IF i > Len(items)
    THEN 1
    ELSE IF items[i].type # "string"
           THEN ScanComments_DefaultOne(items, i + 1)
           ELSE LET match == RegexSearch(items[i].chars, 1)
                    value == parseInt(match)
                IN  IF match # <<>>
                      THEN IF value = <<>>
                             THEN DefaultPriority
                             ELSE Max(1, Min(DefaultPriority, value[1]))
                      ELSE ScanComments_DefaultOne(items, i + 1)

\* for (const comment of comments) { ... } return 10, from item i on
RECURSIVE ScanComments(_, _)
ScanComments(items, i) ==
  IF i > Len(items)
    THEN DefaultPriority
    ELSE IF items[i].type # "string"
           THEN ScanComments(items, i + 1)
           ELSE LET match == RegexSearch(items[i].chars, 1)
                    value == parseInt(match)
                IN  IF match # <<>>
                      THEN IF value = <<>>
                             THEN DefaultPriority
                             ELSE Max(1, Min(DefaultPriority, value[1]))
                      ELSE ScanComments(items, i + 1)

extractPriority(c) ==
  IF c.kind \in {"null", "undefined"} \/ c.kind # "array" \/ Len(c.items) = 0
    THEN DefaultPriority
    ELSE ScanComments(c.items, 1)

ExtractPriority ==
  /\ extracted = <<>>
  /\ extracted' = <<extractPriority(comments)>>
  /\ UNCHANGED <<taskVars, sortVars, comments, renderVars, authVars, historyVars>>

PriorityNext == ExtractPriority

\* `PRIORITY:${n}`: the decimal digits of n after the tag, with a minus sign
\* for a negative n
RECURSIVE NatDigits(_)
NatDigits(n) ==
  IF n < 10
    THEN <<DigitChars[n + 1]>>
    ELSE NatDigits(n \div 10) \o <<DigitChars[(n % 10) + 1]>>

FormatInt(n) == IF n < 0 THEN <<"-">> \o NatDigits(0 - n) ELSE NatDigits(n)
PriorityComment(n) == <<"PRIORITY:">> \o FormatInt(n)

\* tag values drawn for a single comment: -MaxTagValue..MaxTagValue
TagValues == (0 - MaxTagValue)..MaxTagValue

\* single comments: the tag with every value, alone, in lower case, or
\* inside other text
SingleComments ==
  UNION { { PriorityComment(n),
            <<"priority:">> \o FormatInt(n),
            <<"a", " ">> \o PriorityComment(n) \o <<" ", "a">> } :
          n \in TagValues }

\* the comment of a decimal value: `PRIORITY:3.7`
DecimalComment(n, d) == PriorityComment(n) \o <<".", d>>
DecimalComments == { DecimalComment(n, d) : n \in {0, 3, 10}, d \in {"2", "5", "7"} }

\* items of the longer lists: plain text, tags in and out of range, a
\* malformed tag, a malformed tag followed by a good one, a decimal, a
\* bare sign, and an item that is no string
ListItems ==
  { StringItem(<<"n", "o", "t", "e">>),
    StringItem(PriorityComment(15)),
    StringItem(PriorityComment(2)),
    StringItem(<<"Priority:">> \o FormatInt(0 - 3)),
    StringItem(<<"PRIORITY:", "a", "b", "c">>),
    StringItem(<<"PRIORITY:", "a", " ">> \o PriorityComment(5)),
    StringItem(DecimalComment(3, "7")),
    StringItem(<<"PRIORITY:", "-">>),
    OtherItem }

CommentsInputs ==
  { [kind |-> k, items |-> <<>>] : k \in NonArrayKinds }
  \cup { ArrayOf(<<StringItem(cs)>>) : cs \in SingleComments \cup DecimalComments }
  \cup UNION { { ArrayOf(f) : f \in [1..n -> ListItems] } : n \in 0..MaxComments }

InitPriority ==
  /\ comments \in CommentsInputs
  /\ extracted = <<>>
  /\ task = Task(1, "task", 0, 1, FALSE, <<>>)
  /\ AuthIdle
  /\ start = task
  /\ steps = 0
  /\ input = task
  /\ newCount = 0
  /\ prompt = FALSE
  /\ lastOp = "none"
  /\ tasks = <<>>
  /\ sorted = <<>>
  /\ sortDone = FALSE
  /\ RenderIdle

SpecPriority == InitPriority /\ [][PriorityNext]_vars

(***************************************************************************)
(* Priority Classifier.                                                    *)
(***************************************************************************)
\* mutant: the upper end of the red range moved by one
getPriorityBorderColor_RedUpToFour(priority) ==
  IF priority >= 1 /\ priority <= 4
    THEN "border-l-red-500"
    ELSE IF priority >= 4 /\ priority <= 7
           THEN "border-l-yellow-500"
           ELSE "border-l-blue-500"

getPriorityBorderColor(priority) ==
  IF priority >= 1 /\ priority <= 3
    THEN "border-l-red-500"
    ELSE IF priority >= 4 /\ priority <= 7
           THEN "border-l-yellow-500"
           ELSE "border-l-blue-500"

GetPriorityBorderColor ==
  /\ color = <<>>
  /\ color' = <<getPriorityBorderColor(colorArg)>>
  /\ UNCHANGED <<taskVars, sortVars, priorityVars, authVars, historyVars, colorArg,
                 renderTask, renderFlag, card>>

ColorNext == GetPriorityBorderColor

\* integers handed to the classifier: -MaxColorArg..MaxColorArg
ColorArgs == (0 - MaxColorArg)..MaxColorArg

InitColor ==
  /\ colorArg \in ColorArgs
  /\ color = <<>>
  /\ renderTask = CardTask(Task(1, "task", 0, 1, FALSE, <<>>), <<>>, FALSE)
  /\ renderFlag = FALSE
  /\ card = <<>>
  /\ task = Task(1, "task", 0, 1, FALSE, <<>>)
  /\ input = task
  /\ newCount = 0
  /\ prompt = FALSE
  /\ lastOp = "none"
  /\ tasks = <<>>
  /\ sorted = <<>>
  /\ sortDone = FALSE
  /\ comments = [kind |-> "null", items |-> <<>>]
  /\ extracted = <<>>
  /\ AuthIdle
  /\ start = task
  /\ steps = 0

SpecColor == InitColor /\ [][ColorNext]_vars

(***************************************************************************)
(* View Model Renderer.                                                    *)
(*                                                                         *)
(* A JavaScript number is a fraction num/den, NaN or Infinity; the         *)
(* rendering is the record of the values the template interpolates.        *)
(***************************************************************************)
Finite(n, d) == [kind |-> "finite", num |-> n, den |-> d]
NaN == [kind |-> "NaN", num |-> 0, den |-> 0]
Infinity(sign) == [kind |-> "Infinity", num |-> sign, den |-> 0]

\* a / b on integers
Divide(a, b) ==
  IF b = 0
    THEN IF a = 0 THEN NaN ELSE Infinity(IF a > 0 THEN 1 ELSE 0 - 1)
    ELSE IF b > 0 THEN Finite(a, b) ELSE Finite(0 - a, 0 - b)

\* x * k for an integer k > 0
Times(x, k) == IF x.kind = "finite" THEN Finite(x.num * k, x.den) ELSE x

\* mutant: the division made whatever the target count is
progressOf_AlwaysDivides(t) ==
  Times(Divide(t.executionCount, t.targetCount), 100)

\* task.targetCount > 0 ? (task.executionCount / task.targetCount) * 100 : 0
progressOf(t) ==
  IF t.targetCount > 0
    THEN Times(Divide(t.executionCount, t.targetCount), 100)
    ELSE Finite(0, 1)

\* mutant: the variant chosen by the task's own isCompleted field
renderTaskCard_ByTaskField(t, isCompleted) ==
  LET progress == progressOf(t)
      teamInfo == t.teamName
  IN  IF t.isCompleted
        THEN [progress |-> progress, classes |-> <<>>, taskId |-> t.id, name |-> t.name,
              teamInfo |-> teamInfo, marker |-> <<"check_circle">>, countText |-> <<>>,
              width |-> Finite(100, 1)]
        ELSE [progress |-> progress,
              classes |-> <<getPriorityBorderColor(Nullish(t.priority, DefaultPriority))>>
                          \o (IF t.hasConflict THEN <<"ring-2 ring-red-500 animate-pulse">> ELSE <<>>),
              taskId |-> t.id, name |-> t.name, teamInfo |-> teamInfo, marker |-> <<>>,
              countText |-> <<t.executionCount, t.targetCount>>, width |-> progress]

renderTaskCard(t, isCompleted) ==
  LET progress == progressOf(t)
      teamInfo == t.teamName
  IN  IF isCompleted
        THEN [progress |-> progress,
              classes |-> <<>>,
              taskId |-> t.id,
              name |-> t.name,
              teamInfo |-> teamInfo,
              marker |-> <<"check_circle">>,
              countText |-> <<>>,
              width |-> Finite(100, 1)]
        ELSE LET conflictClass ==
                   IF t.hasConflict
                     THEN <<"ring-2 ring-red-500 animate-pulse">>
                     ELSE <<>>
                 priority == Nullish(t.priority, DefaultPriority)
                 priorityBorderColor == getPriorityBorderColor(priority)
             IN  [progress |-> progress,
                  classes |-> <<priorityBorderColor>> \o conflictClass,
                  taskId |-> t.id,
                  name |-> t.name,
                  teamInfo |-> teamInfo,
                  marker |-> <<>>,
                  countText |-> <<t.executionCount, t.targetCount>>,
                  width |-> progress]

RenderTaskCard ==
  /\ card = <<>>
  /\ card' = <<renderTaskCard(renderTask, renderFlag)>>
  /\ UNCHANGED <<taskVars, sortVars, priorityVars, authVars, historyVars, colorArg, color,
                 renderTask, renderFlag>>

RenderNext == RenderTaskCard

\* tasks handed to the renderer: any counts, completed or not, with and
\* without priority, team name and conflict flag
RenderTasks ==
  { CardTask(Task(1, "task", ec, tc, done, p), team, conflict) :
      ec \in CountRange, tc \in CountRange, done \in BOOLEAN,
      p \in Priorities \cup {<<5>>}, team \in {<<>>, <<"team">>},
      conflict \in BOOLEAN }

InitRender ==
  /\ renderTask \in RenderTasks
  /\ renderFlag \in BOOLEAN
  /\ card = <<>>
  /\ colorArg = 0
  /\ color = <<>>
  /\ task = Task(1, "task", 0, 1, FALSE, <<>>)
  /\ input = task
  /\ newCount = 0
  /\ prompt = FALSE
  /\ lastOp = "none"
  /\ tasks = <<>>
  /\ sorted = <<>>
  /\ sortDone = FALSE
  /\ comments = [kind |-> "null", items |-> <<>>]
  /\ extracted = <<>>
  /\ AuthIdle
  /\ start = task
  /\ steps = 0

SpecRender == InitRender /\ [][RenderNext]_vars

(***************************************************************************)
(* Credential validation (validation.js).  A credential is null, undefined *)
(* or a string; a string is a sequence of characters, blanks and tabs      *)
(* standing for the characters trim() strips and "a" for the others.       *)
(***************************************************************************)
MaxStringLen == 3    \* longest email / password drawn

WhitespaceChars == {" ", "\t"}
CredentialChars == WhitespaceChars \cup {"a"}

Null == [kind |-> "null", chars |-> <<>>]
Undefined == [kind |-> "undefined", chars |-> <<>>]
Str(cs) == [kind |-> "string", chars |-> cs]

\* String.prototype.trim: white space stripped from both ends
RECURSIVE TrimStart(_)
TrimStart(cs) ==
  IF cs # <<>> /\ Head(cs) \in WhitespaceChars THEN TrimStart(Tail(cs)) ELSE cs

RECURSIVE TrimEnd(_)
TrimEnd(cs) ==
  IF cs # <<>> /\ cs[Len(cs)] \in WhitespaceChars
    THEN TrimEnd(SubSeq(cs, 1, Len(cs) - 1))
    ELSE cs

trim(cs) == TrimEnd(TrimStart(cs))

\* !value for null, undefined and strings
Falsy(v) == v.kind \in {"null", "undefined"} \/ v.chars = <<>>

\* Object.keys(errors): the error fields that were assigned
ObjectKeys(errors) == {k \in {"email", "password"} : errors[k] # <<>>}

\* mutant: the trim() test dropped, only !value left
validateCredentials_NoTrim(email, password) ==
  LET errors == [email |-> IF Falsy(email)
                             THEN <<"Email or Employee ID is required">> ELSE <<>>,
                 password |-> IF Falsy(password)
                                THEN <<"Password is required">> ELSE <<>>]
  IN  [isValid |-> Cardinality(ObjectKeys(errors)) = 0, errors |-> errors]

validateCredentials(email, password) ==
  LET errors == [email |-> IF Falsy(email) \/ trim(email.chars) = <<>>
                             THEN <<"Email or Employee ID is required">> ELSE <<>>,
                 password |-> IF Falsy(password) \/ trim(password.chars) = <<>>
                                THEN <<"Password is required">> ELSE <<>>]
  IN  [isValid |-> Cardinality(ObjectKeys(errors)) = 0, errors |-> errors]

ValidateCredentials ==
  /\ validation = <<>>
  /\ validation' = <<validateCredentials(credentials.email, credentials.password)>>
  /\ UNCHANGED <<taskVars, sortVars, priorityVars, renderVars, historyVars,
                 credentials, token, apiCall>>

ValidateNext == ValidateCredentials

\* strings of up to MaxStringLen characters, null and undefined
CredentialValues ==
  {Null, Undefined}
  \cup UNION { { Str(f) : f \in [1..n -> CredentialChars] } : n \in 0..MaxStringLen }

InitValidate ==
  /\ credentials \in [email : CredentialValues, password : CredentialValues]
  /\ validation = <<>>
  /\ token = <<>>
  /\ apiCall = <<>>
  /\ task = Task(1, "task", 0, 1, FALSE, <<>>)
  /\ input = task
  /\ newCount = 0
  /\ prompt = FALSE
  /\ lastOp = "none"
  /\ start = task
  /\ steps = 0
  /\ tasks = <<>>
  /\ sorted = <<>>
  /\ sortDone = FALSE
  /\ comments = [kind |-> "null", items |-> <<>>]
  /\ extracted = <<>>
  /\ RenderIdle

SpecValidate == InitValidate /\ [][ValidateNext]_vars

(***************************************************************************)
(* ApiClient (api-client.js).  A call changes shared state only when it    *)
(* settles, after its last await: one action per settling call, with what  *)
(* fetch delivered drawn freely.  <<>> is a fetch that rejected (network   *)
(* failure), <<response>> a response; a response has its status, whether   *)
(* its body parses as a JSON object, and the optional message and token    *)
(* fields of that object.                                                  *)
(***************************************************************************)
Statuses == {200, 400, 401, 500}
Tokens == {"t1", "t2"}
ServerMessages == {"", "Server error"}

Optional(S) == {<<>>} \cup {<<x>> : x \in S}

Responses ==
  { [status |-> st, json |-> TRUE, message |-> m, token |-> t] :
      st \in Statuses, m \in Optional(ServerMessages), t \in Optional(Tokens) }
  \cup { [status |-> st, json |-> FALSE, message |-> <<>>, token |-> <<>>] :
           st \in Statuses }

Fetched == Optional(Responses)

\* Response.ok: the status is in the range 200-299
Ok(response) == response.status >= 200 /\ response.status <= 299

\* value || fallback for an optional string
OrDefault(value, fallback) ==
  IF value # <<>> /\ value[1] # "" THEN value[1] ELSE fallback

\* (await response.json().catch(() => ({ message: fallback }))).message
errorMessage(response, fallback) ==
  IF response.json THEN response.message ELSE <<fallback>>

Rejected(m) == [kind |-> "rejected", message |-> m]
Resolved == [kind |-> "resolved", message |-> ""]

\* mutant: the token of the body stored before the response is looked at
login_StoresFirst(tok, fetched) ==
  IF fetched = <<>>
    THEN [token |-> tok, outcome |-> Rejected("fetch failed")]
    ELSE LET response == fetched[1]
         IN  IF ~response.json
               THEN [token |-> tok,
                     outcome |-> Rejected(IF Ok(response) THEN "SyntaxError" ELSE "Login failed")]
               ELSE IF ~Ok(response)
                      THEN [token |-> response.token,
                            outcome |-> Rejected(OrDefault(response.message, "Invalid credentials"))]
                      ELSE [token |-> response.token, outcome |-> Resolved]

\* login: ApiClient.token and the settlement of the promise
login(tok, fetched) ==
  IF fetched = <<>>
    THEN [token |-> tok, outcome |-> Rejected("fetch failed")]
    ELSE LET response == fetched[1]
         IN  IF ~Ok(response)
               THEN [token |-> tok,
                     outcome |-> Rejected(OrDefault(errorMessage(response, "Login failed"),
                                                    "Invalid credentials"))]
               ELSE IF ~response.json
                      THEN [token |-> tok, outcome |-> Rejected("SyntaxError")]
                      ELSE [token |-> response.token, outcome |-> Resolved]

getTasks(tok, fetched) ==
  IF fetched = <<>>
    THEN [token |-> tok, outcome |-> Rejected("fetch failed")]
    ELSE LET response == fetched[1]
         IN  IF ~Ok(response)
               THEN IF response.status = 401
                      THEN [token |-> tok, outcome |-> Rejected("SESSION_EXPIRED")]
                      ELSE [token |-> tok,
                            outcome |-> Rejected(OrDefault(errorMessage(response, "Failed to fetch tasks"),
                                                           "Failed to fetch tasks"))]
               ELSE IF ~response.json
                      THEN [token |-> tok, outcome |-> Rejected("SyntaxError")]
                      ELSE [token |-> tok, outcome |-> Resolved]

updateTaskExecution(tok, fetched) ==
  IF fetched = <<>>
    THEN [token |-> tok, outcome |-> Rejected("fetch failed")]
    ELSE LET response == fetched[1]
         IN  IF ~Ok(response)
               THEN IF response.status = 401
                      THEN [token |-> tok, outcome |-> Rejected("SESSION_EXPIRED")]
                      ELSE [token |-> tok,
                            outcome |-> Rejected(OrDefault(errorMessage(response, "Failed to update task"),
                                                           "Failed to update task"))]
               ELSE IF ~response.json
                      THEN [token |-> tok, outcome |-> Rejected("SyntaxError")]
                      ELSE [token |-> tok, outcome |-> Resolved]

\* mutant: the 401 test left out
markTaskComplete_No401(tok, fetched) ==
  IF fetched = <<>>
    THEN [token |-> tok, outcome |-> Rejected("fetch failed")]
    ELSE LET response == fetched[1]
         IN  IF ~Ok(response)
               THEN [token |-> tok,
                     outcome |-> Rejected(OrDefault(errorMessage(response, "Failed to complete task"),
                                                    "Failed to complete task"))]
               ELSE IF ~response.json
                      THEN [token |-> tok, outcome |-> Rejected("SyntaxError")]
                      ELSE [token |-> tok, outcome |-> Resolved]

markTaskComplete(tok, fetched) ==
  IF fetched = <<>>
    THEN [token |-> tok, outcome |-> Rejected("fetch failed")]
    ELSE LET response == fetched[1]
         IN  IF ~Ok(response)
               THEN IF response.status = 401
                      THEN [token |-> tok, outcome |-> Rejected("SESSION_EXPIRED")]
                      ELSE [token |-> tok,
                            outcome |-> Rejected(OrDefault(errorMessage(response, "Failed to complete task"),
                                                           "Failed to complete task"))]
               ELSE IF ~response.json
                      THEN [token |-> tok, outcome |-> Rejected("SyntaxError")]
                      ELSE [token |-> tok, outcome |-> Resolved]

\* a call settles: the token it found, what fetch delivered, how it settled
Settle(op, fetched, after) ==
  /\ token' = after.token
  /\ apiCall' = <<[op |-> op, fetched |-> fetched, tokenBefore |-> token,
                   outcome |-> after.outcome]>>
  /\ UNCHANGED <<taskVars, sortVars, priorityVars, renderVars, historyVars,
                 credentials, validation>>

Login == \E fetched \in Fetched : Settle("login", fetched, login(token, fetched))

GetTasks == \E fetched \in Fetched : Settle("getTasks", fetched, getTasks(token, fetched))

UpdateTaskExecution ==
  \E fetched \in Fetched :
    Settle("updateTaskExecution", fetched, updateTaskExecution(token, fetched))

MarkTaskComplete ==
  \E fetched \in Fetched :
    Settle("markTaskComplete", fetched, markTaskComplete(token, fetched))

ApiNext == Login \/ GetTasks \/ UpdateTaskExecution \/ MarkTaskComplete

InitApi ==
  /\ AuthIdle
  /\ task = Task(1, "task", 0, 1, FALSE, <<>>)
  /\ input = task
  /\ newCount = 0
  /\ prompt = FALSE
  /\ lastOp = "none"
  /\ start = task
  /\ steps = 0
  /\ tasks = <<>>
  /\ sorted = <<>>
  /\ sortDone = FALSE
  /\ comments = [kind |-> "null", items |-> <<>>]
  /\ extracted = <<>>
  /\ RenderIdle

SpecApi == InitApi /\ [][ApiNext]_vars

(***************************************************************************)
(* Properties of the completion workflow and of the counter functions.     *)
(* `input` is the task an operation was applied to, `task` the caller's    *)
(* task after it, `newCount` the count returned.                           *)
(***************************************************************************)
CounterOps == {"increment", "decrement"}
CoreOps == {"increment", "decrement", "confirm", "decline"}

\* C1: Completed is terminal: a core operation applied to a task with
\* isCompleted = true never yields a task with isCompleted = false.
C1_CompletedIsTerminal ==
  (lastOp \in CoreOps /\ input.isCompleted) => task.isCompleted

\* C2: Counter bounds: from an active task with 0 <= executionCount <=
\* targetCount, every count returned by increment/decrement and written back
\* keeps 0 <= executionCount <= targetCount (targetCount = 0 included).
C2_CounterBounds ==
  /\ 0 <= task.executionCount
  /\ task.executionCount <= task.targetCount
  /\ lastOp \in CounterOps => (0 <= newCount /\ newCount <= task.targetCount)

\* an increment at the cap of the degenerate target 0, and nothing moved
C2_Witness ==
  /\ lastOp = "increment"
  /\ ~input.isCompleted
  /\ input.targetCount = 0
  /\ input.executionCount = 0
  /\ task.executionCount = 0

\* C3: shouldTriggerCompletionPrompt(task, newCount) is true exactly when the
\* task is not completed and newCount equals targetCount; so it is false for
\* every completed task and false after an increment that stays below target.
C3_PromptIff ==
  /\ lastOp \in {"prompt", "increment"} =>
       (prompt <=> (~input.isCompleted /\ newCount = input.targetCount))
  /\ (lastOp \in {"prompt", "increment"} /\ input.isCompleted) => ~prompt
  /\ (lastOp = "increment" /\ newCount < input.targetCount) => ~prompt

\* a completed task asked about its own target count: no prompt
C3_Witness ==
  /\ lastOp = "prompt"
  /\ input.isCompleted
  /\ newCount = input.targetCount
  /\ prompt = FALSE

\* C4: confirmCompletion sets isCompleted to true only when executionCount
\* equals targetCount at the call; when the counts differ the task comes back
\* unchanged, isCompleted keeping its previous value.
C4_ConfirmGuard ==
  lastOp = "confirm" =>
    /\ input.executionCount = input.targetCount => task.isCompleted
    /\ input.executionCount # input.targetCount => task = input
    /\ (task.isCompleted /\ ~input.isCompleted) =>
         input.executionCount = input.targetCount

\* a stale confirm: an active task below target stays active
C4_Witness ==
  /\ lastOp = "confirm"
  /\ input.executionCount # input.targetCount
  /\ ~input.isCompleted
  /\ ~task.isCompleted

C7_IncrementMin ==
  (lastOp = "increment" /\ ~input.isCompleted) =>
    /\ newCount <= input.executionCount + 1
    /\ newCount <= input.targetCount
    /\ newCount \in {input.executionCount + 1, input.targetCount}
    /\ input.executionCount < input.targetCount =>
         newCount = input.executionCount + 1
    /\ input.executionCount = input.targetCount =>
         newCount = input.targetCount

\* an increment of a task that an earlier increment already left at target
C7_Witness ==
  /\ lastOp = "increment"
  /\ ~input.isCompleted
  /\ input.targetCount > 0
  /\ input.executionCount = input.targetCount
  /\ newCount = input.targetCount

\* C8: on a non-completed task decrement returns max(executionCount - 1, 0):
\* executionCount - 1 above zero, 0 at zero; never negative.
C8_DecrementMax ==
  (lastOp = "decrement" /\ ~input.isCompleted) =>
    /\ newCount >= input.executionCount - 1
    /\ newCount >= 0
    /\ newCount \in {input.executionCount - 1, 0}
    /\ input.executionCount > 0 => newCount = input.executionCount - 1
    /\ input.executionCount = 0 => newCount = 0

\* a decrement at the floor
C8_Witness ==
  /\ lastOp = "decrement"
  /\ ~input.isCompleted
  /\ input.executionCount = 0
  /\ newCount = 0

(***************************************************************************)
(* Properties of sortTasks: `tasks` is the input list, `sorted` the output. *)
(***************************************************************************)
EffectivePriority(t) == IF t.priority = <<>> THEN 10 ELSE t.priority[1]

\* C9: in the output of sortTasks every task with isCompleted = false comes
\* before every task with isCompleted = true, whatever their priorities.
C9_ActiveBeforeCompleted ==
  sortDone =>
    \A i, j \in 1..Len(sorted) :
      ((~sorted[i].isCompleted) /\ sorted[j].isCompleted) => i < j

\* a completed task of priority 1 ahead of a less urgent active task in the
\* input, behind it in the output
C9_Witness ==
  /\ sortDone
  /\ \E i, j \in 1..Len(tasks) :
       /\ i < j
       /\ tasks[i].isCompleted /\ tasks[i].priority = <<1>>
       /\ (~tasks[j].isCompleted) /\ EffectivePriority(tasks[j]) > 1
       /\ \E k, l \in 1..Len(sorted) :
            k < l /\ sorted[k] = tasks[j] /\ sorted[l] = tasks[i]

\* C10: among the active tasks of the output the effective priority (10 for
\* a missing priority) is non-decreasing, and no output task has a priority
\* the input task of the same id did not have.
C10_ActiveByPriority ==
  sortDone =>
    /\ \A i, j \in 1..Len(sorted) :
         (i < j /\ (~sorted[i].isCompleted) /\ (~sorted[j].isCompleted)) =>
           EffectivePriority(sorted[i]) <= EffectivePriority(sorted[j])
    /\ \A k \in 1..Len(sorted) :
         \E i \in 1..Len(tasks) :
           tasks[i].id = sorted[k].id /\ tasks[i].priority = sorted[k].priority

\* an active task without priority lands between priority 9 and priority 11
\* and still has no priority
C10_Witness ==
  /\ sortDone
  /\ Len(tasks) = 3 /\ Len(sorted) = 3
  /\ \A i \in 1..3 : ~tasks[i].isCompleted
  /\ tasks[1].priority = <<>>
  /\ tasks[2].priority = <<DefaultPriority + 1>>
  /\ tasks[3].priority = <<DefaultPriority - 1>>
  /\ sorted = <<tasks[3], tasks[1], tasks[2]>>

\* C11: sortTasks is stable: two active tasks of equal effective priority
\* keep their input order in the output, in every input list.
C11_StableAmongActive ==
  sortDone =>
    \A i, j \in 1..Len(tasks) :
      ( /\ i < j
        /\ ~tasks[i].isCompleted
        /\ ~tasks[j].isCompleted
        /\ EffectivePriority(tasks[i]) = EffectivePriority(tasks[j]) ) =>
        \E k, l \in 1..Len(sorted) :
          k < l /\ sorted[k] = tasks[i] /\ sorted[l] = tasks[j]

\* priority 10, then priority 1, then no priority: the more urgent task moves
\* to the front and the two of effective priority 10 keep their order
C11_Witness ==
  /\ sortDone
  /\ Len(tasks) = 3
  /\ \A i \in 1..3 : ~tasks[i].isCompleted
  /\ tasks[1].priority = <<DefaultPriority>>
  /\ tasks[2].priority = <<1>>
  /\ tasks[3].priority = <<>>
  /\ sorted = <<tasks[2], tasks[1], tasks[3]>>

\* C12: sortTasks(L) is a permutation of L: same length, and every task of L
\* (ids are unique) is in the output once, with the same field values.
C12_Permutation ==
  sortDone =>
    /\ Len(sorted) = Len(tasks)
    /\ \A i \in 1..Len(tasks) :
         Cardinality({k \in 1..Len(sorted) : sorted[k] = tasks[i]}) = 1
    /\ \A k \in 1..Len(sorted) :
         \E i \in 1..Len(tasks) : sorted[k] = tasks[i]

\* a full-length list that comes back in another order, a task without
\* priority among them
C12_Witness ==
  /\ sortDone
  /\ Len(tasks) = MaxTasks
  /\ Len(sorted) = MaxTasks
  /\ sorted # tasks
  /\ \E i \in 1..Len(tasks) : tasks[i].priority = <<>>

Clamp(n) == IF n < 1 THEN 1 ELSE IF n > 10 THEN 10 ELSE n

\* a tag followed by a digit, or by a minus sign and a digit
WellFormedAt(s, i) ==
  /\ s[i] \in TagTokens
  /\ \/ (i + 1 <= Len(s) /\ s[i + 1] \in Digits)
     \/ (i + 2 <= Len(s) /\ s[i + 1] = "-" /\ s[i + 2] \in Digits)

HasTag(s) == \E i \in 1..Len(s) : s[i] \in TagTokens
HasWellFormedTag(s) == \E i \in 1..Len(s) : WellFormedAt(s, i)

IsMatching(item) == item.type = "string" /\ HasWellFormedTag(item.chars)
IsMalformed(item) ==
  item.type = "string" /\ HasTag(item.chars) /\ ~HasWellFormedTag(item.chars)

RemoveAt(items, k) ==
  SubSeq(items, 1, k - 1) \o SubSeq(items, k + 1, Len(items))

ScenarioComments ==
  ArrayOf(<<StringItem(<<"n", "o", "t", "e">>),
            StringItem(PriorityComment(15)),
            StringItem(PriorityComment(2))>>)

\* C14: extractPriority returns an integer in 1..10 for every input, and for
\* the single comment PRIORITY:n it returns n clamped into 1..10.
C14_ClampedResult ==
  extracted # <<>> =>
    /\ extracted[1] \in 1..10
    /\ \A n \in TagValues :
         comments = ArrayOf(<<StringItem(PriorityComment(n))>>) =>
           extracted[1] = Clamp(n)

\* PRIORITY:-5 comes back as 1
C14_Witness ==
  /\ comments = ArrayOf(<<StringItem(PriorityComment(0 - 5))>>)
  /\ extracted = <<1>>

\* C15: the result is the one the first matching string item gives alone:
\* items before it that are no strings or do not match have no effect, later
\* items are ignored even when the first match is out of range
\* (['note', 'PRIORITY:15', 'PRIORITY:2'] gives 10).
C15_FirstMatchOnly ==
  (extracted # <<>> /\ comments.kind = "array") =>
    /\ \A k \in 1..Len(comments.items) :
         ( /\ IsMatching(comments.items[k])
           /\ \A j \in 1..(k - 1) : ~IsMatching(comments.items[j]) ) =>
           extracted[1] = extractPriority(ArrayOf(<<comments.items[k]>>))
    /\ comments = ScenarioComments => extracted[1] = 10

\* the scenario list: 15 is the first match and is clamped to 10
C15_Witness ==
  /\ comments = ScenarioComments
  /\ extracted = <<10>>

\* C16: the result is 10 when the argument is null, undefined, a value that
\* is no array, an empty array, or an array without a matching item.
C16_DefaultWithoutMatch ==
  ( /\ extracted # <<>>
    /\ \/ comments.kind \in NonArrayKinds
       \/ \A k \in 1..Len(comments.items) : ~IsMatching(comments.items[k]) ) =>
    extracted = <<10>>

\* an array of plain text and a non-string item
C16_Witness ==
  /\ comments = ArrayOf(<<OtherItem, StringItem(<<"n", "o", "t", "e">>)>>)
  /\ extracted = <<10>>

C18_DecimalRounded ==
  extracted # <<>> =>
    \A n \in {0, 3, 10}, d \in {"2", "5", "7"} :
      comments = ArrayOf(<<StringItem(DecimalComment(n, d))>>) =>
        extracted[1] = Clamp(IF DigitValue(d) >= 5 THEN n + 1 ELSE n)

(***************************************************************************)
(* Properties of the classifier and of the renderer.                       *)
(***************************************************************************)
\* C19: getPriorityBorderColor returns a token for every integer: red
\* exactly for 1..3, yellow exactly for 4..7, blue for every other integer.
C19_ColorTiers ==
  color # <<>> =>
    /\ color[1] \in {"border-l-red-500", "border-l-yellow-500", "border-l-blue-500"}
    /\ color[1] = "border-l-red-500" <=> colorArg \in 1..3
    /\ color[1] = "border-l-yellow-500" <=> colorArg \in 4..7
    /\ color[1] = "border-l-blue-500" <=> (colorArg < 1 \/ colorArg > 7)

\* a negative priority falls into the blue tier
C19_Witness ==
  /\ colorArg < 0
  /\ color = <<"border-l-blue-500">>

\* C20: renderTaskCard computes the progress as 0 whenever targetCount is 0
\* (never NaN or Infinity) and as executionCount / targetCount * 100 when
\* targetCount > 0, which is within 0..100 when 0 <= executionCount <=
\* targetCount.
C20_Progress ==
  card # <<>> =>
    LET progress == card[1].progress
        ec == renderTask.executionCount
        tc == renderTask.targetCount
    IN  /\ progress.kind = "finite"
        /\ tc = 0 => (progress.num = 0 /\ progress.den = 1)
        /\ tc > 0 =>
             /\ progress.den > 0
             /\ progress.num * tc = ec * 100 * progress.den
        /\ (tc > 0 /\ 0 <= ec /\ ec <= tc) =>
             (0 <= progress.num /\ progress.num <= 100 * progress.den)
        /\ (~renderFlag) => card[1].width = progress

\* executionCount 1 of targetCount 0 on an active card: width 0, where the
\* division would have given Infinity
C20_Witness ==
  /\ card # <<>>
  /\ ~renderFlag
  /\ renderTask.targetCount = 0
  /\ renderTask.executionCount = 1
  /\ card[1].width = Finite(0, 1)

(***************************************************************************)
(* Properties of the card variants.                                        *)
(***************************************************************************)
BorderTokens == {"border-l-red-500", "border-l-yellow-500", "border-l-blue-500"}

\* C21: the card variant follows the isCompleted argument alone, whatever
\* the task's own isCompleted field and counts are: with the argument true
\* the card carries the task name, the fixed 100% bar and the check_circle
\* marker, and neither the "executionCount / targetCount" text nor a
\* priority border token; with the argument false it is the active card
\* with the count text and a border token and without the marker.
C21_VariantByFlag ==
  card # <<>> =>
    /\ card[1].name = renderTask.name
    /\ renderFlag =>
         /\ card[1].marker = <<"check_circle">>
         /\ card[1].width = Finite(100, 1)
         /\ card[1].countText = <<>>
         /\ \A i \in 1..Len(card[1].classes) : card[1].classes[i] \notin BorderTokens
    /\ ~renderFlag =>
         /\ card[1].marker = <<>>
         /\ card[1].countText = <<renderTask.executionCount, renderTask.targetCount>>
         /\ \E i \in 1..Len(card[1].classes) : card[1].classes[i] \in BorderTokens

\* a task whose own field says active and whose count is short of the
\* target, rendered with the argument true
C21_Witness ==
  /\ card # <<>>
  /\ renderFlag
  /\ ~renderTask.isCompleted
  /\ renderTask.executionCount = 1
  /\ renderTask.targetCount = 2
  /\ renderTask.priority = <<1>>
  /\ card[1].marker = <<"check_circle">>
  /\ card[1].width = Finite(100, 1)

(***************************************************************************)
(* Further properties of sortTasks.                                        *)
(***************************************************************************)
\* C23: within the completed group of the output of sortTasks the tasks are
\* in exactly their input order, whatever their priorities: the priority of
\* a completed task is never a sort key.
C23_CompletedKeepInputOrder ==
  sortDone =>
    \A i, j \in 1..Len(tasks) :
      (i < j /\ tasks[i].isCompleted /\ tasks[j].isCompleted) =>
        \E k, l \in 1..Len(sorted) :
          k < l /\ sorted[k] = tasks[i] /\ sorted[l] = tasks[j]

\* a completed task of the default priority ahead of a completed task of
\* priority 1 in the input, and still ahead of it in the output, behind an
\* active task that moved to the front
C23_Witness ==
  /\ sortDone
  /\ Len(tasks) = 3
  /\ tasks[1].isCompleted /\ tasks[1].priority = <<DefaultPriority>>
  /\ tasks[2].isCompleted /\ tasks[2].priority = <<1>>
  /\ ~tasks[3].isCompleted
  /\ sorted = <<tasks[3], tasks[1], tasks[2]>>

\* a task of the output with the input position it came from (the id of a
\* drawn task is its position in the input)
WithOriginalIndex(t) == [task |-> t, originalIndex |-> t.id - 1]

\* C30: on the (task, input index) pairs of a list the comparator is a
\* strict total order: it never returns 0 for two distinct positions, it is
\* antisymmetric and transitive.  Hence the output is the one arrangement
\* that ascends strictly under the comparator, whatever algorithm sorts,
\* and sortTasks is idempotent: sortTasks(sortTasks(L)) = sortTasks(L).
C30_StrictTotalOrder ==
  LET w == tasksWithIndex(tasks)
  IN  /\ \A i, j \in 1..Len(w) :
           i # j =>
             /\ compareFn(w[i], w[j]) # 0
             /\ (compareFn(w[i], w[j]) < 0) <=> (compareFn(w[j], w[i]) > 0)
      /\ \A i, j, k \in 1..Len(w) :
           (compareFn(w[i], w[j]) < 0 /\ compareFn(w[j], w[k]) < 0) =>
             compareFn(w[i], w[k]) < 0
      /\ sortDone =>
           /\ \A k, l \in 1..Len(sorted) :
                k < l => compareFn(WithOriginalIndex(sorted[k]),
                                   WithOriginalIndex(sorted[l])) < 0
           /\ sortTasks(sorted) = sorted

\* a full-length list with two tasks of equal key (active, effective
\* priority 10) and a completed task in front, which the sort reorders
C30_Witness ==
  /\ sortDone
  /\ Len(tasks) = MaxTasks
  /\ tasks[1].isCompleted
  /\ \E i, j \in 1..Len(tasks) :
       /\ i < j
       /\ ~tasks[i].isCompleted /\ tasks[i].priority = <<>>
       /\ ~tasks[j].isCompleted /\ tasks[j].priority = <<DefaultPriority>>
  /\ sorted # tasks
  /\ sortTasks(sorted) = sorted

(***************************************************************************)
(* Further properties of the completion workflow.                          *)
(***************************************************************************)
\* C24: confirmCompletion and declineCompletion never modify the task object
\* passed in (after the call the argument still has the value it was called
\* with), and the task returned differs from the argument in at most
\* isCompleted: id, name, executionCount, targetCount and every other field
\* are preserved.
C24_OnlyIsCompletedDiffers ==
  /\ []((lastOp \in {"confirm", "decline"}) =>
          [task EXCEPT !.isCompleted = input.isCompleted] = input)
  /\ [][(lastOp' \in {"confirm", "decline"}) => input' = task]_vars

\* a confirm at target on an active task with a priority: the argument is
\* still active, the result is completed and equal to it in the other fields
C24_Witness ==
  /\ lastOp = "confirm"
  /\ ~input.isCompleted
  /\ task.isCompleted
  /\ input.priority = <<1>>
  /\ input.executionCount = 2
  /\ input.targetCount = 2
  /\ task = [input EXCEPT !.isCompleted = TRUE]

\* C27: completion implies target reached: from an active task with
\* 0 <= executionCount <= targetCount, after any sequence of increment,
\* decrement, confirm and decline, isCompleted = true implies
\* executionCount = targetCount.
C27_CompletedAtTarget ==
  task.isCompleted => task.executionCount = task.targetCount

\* a decrement tried on a task that was confirmed at its target: still
\* completed, still at the target
C27_Witness ==
  /\ lastOp = "decrement"
  /\ input.isCompleted
  /\ task.isCompleted
  /\ task.targetCount = 2
  /\ task.executionCount = 2

\* C28: for a task started active with 0 <= executionCount < targetCount and
\* only incremented, the prompt check is false after each of the first
\* targetCount - executionCount - 1 increments and true at exactly the
\* (targetCount - executionCount)-th, where the count arrives at the target:
\* the prompt is reached and never fires early.
C28_PromptAtArrival ==
  (lastOp = "increment" /\ steps >= 1 /\ start.executionCount < start.targetCount) =>
    LET need == start.targetCount - start.executionCount
    IN  /\ steps < need =>
             (~prompt /\ task.executionCount = start.executionCount + steps)
        /\ steps = need =>
             (prompt /\ task.executionCount = start.targetCount)

\* from 0 of MaxCount: the MaxCount-th increment raises the prompt
C28_Witness ==
  /\ lastOp = "increment"
  /\ start.executionCount = 0
  /\ start.targetCount = MaxCount
  /\ steps = MaxCount
  /\ prompt
  /\ input.executionCount = MaxCount - 1

\* C29: the prompt re-fires while the task stays at its target: an increment
\* of an active task already at executionCount = targetCount (after a
\* decline, or with targetCount = 0) returns targetCount, leaves the task
\* as it was and raises the prompt again; once the task is confirmed an
\* increment raises no prompt.
C29_PromptRefires ==
  /\ (lastOp = "increment" /\ ~input.isCompleted
        /\ input.executionCount = input.targetCount) =>
       (newCount = input.targetCount /\ prompt /\ task = input)
  /\ (lastOp = "increment" /\ input.isCompleted) => ~prompt

\* an increment of an active task that was already at its target of 2
C29_Witness ==
  /\ lastOp = "increment"
  /\ ~input.isCompleted
  /\ input.executionCount = 2
  /\ input.targetCount = 2
  /\ newCount = 2
  /\ prompt

(***************************************************************************)
(* Properties of validateCredentials.  Blank restates the condition by     *)
(* the characters of the value, without trim().                            *)
(***************************************************************************)
Blank(v) ==
  v.kind # "string" \/ \A i \in 1..Len(v.chars) : v.chars[i] \in WhitespaceChars

\* C22: validateCredentials returns isValid = true exactly when both email
\* and password are non-null strings with at least one non-whitespace
\* character; errors.email is present exactly when email is null, undefined,
\* empty or whitespace-only, and errors.password likewise for password, so
\* both are reported together when both are blank.
C22_ValidIffBothNonBlank ==
  validation # <<>> =>
    /\ validation[1].isValid <=>
         (~Blank(credentials.email) /\ ~Blank(credentials.password))
    /\ (validation[1].errors.email # <<>>) <=> Blank(credentials.email)
    /\ (validation[1].errors.password # <<>>) <=> Blank(credentials.password)
    /\ Blank(credentials.email) =>
         validation[1].errors.email = <<"Email or Employee ID is required">>
    /\ Blank(credentials.password) =>
         validation[1].errors.password = <<"Password is required">>

\* a whitespace-only email with an undefined password: both errors at once
C22_Witness ==
  /\ validation # <<>>
  /\ credentials.email = Str(<<" ", "\t">>)
  /\ credentials.password = Undefined
  /\ ~validation[1].isValid
  /\ validation[1].errors.email # <<>>
  /\ validation[1].errors.password # <<>>

(***************************************************************************)
(* Properties of the ApiClient: apiCall is the call that settled last,     *)
(* token the value of ApiClient.token after it.                            *)
(***************************************************************************)
AuthorizedOps == {"getTasks", "updateTaskExecution", "markTaskComplete"}

DefaultMessage(op) ==
  CASE op = "getTasks" -> "Failed to fetch tasks"
    [] op = "updateTaskExecution" -> "Failed to update task"
    [] op = "markTaskComplete" -> "Failed to complete task"

HasMessage(response) ==
  response.json /\ response.message # <<>> /\ response.message[1] # ""

\* C25: login stores the token of the response in ApiClient.token only when
\* the response is ok; when it is not ok the call rejects, with the server's
\* message when the error body has one and with 'Login failed' when the
\* error body is not JSON, and ApiClient.token is what it was before, in
\* every sequence of successful and failed logins.
C25_LoginToken ==
  (apiCall # <<>> /\ apiCall[1].op = "login") =>
    LET call == apiCall[1]
    IN  /\ token # call.tokenBefore =>
             (call.fetched # <<>> /\ Ok(call.fetched[1]))
        /\ call.outcome.kind = "resolved" =>
             (call.fetched # <<>> /\ Ok(call.fetched[1])
                /\ token = call.fetched[1].token)
        /\ (call.fetched # <<>> /\ ~Ok(call.fetched[1])) =>
             /\ call.outcome.kind = "rejected"
             /\ token = call.tokenBefore
             /\ HasMessage(call.fetched[1]) =>
                  call.outcome.message = call.fetched[1].message[1]
             /\ ~call.fetched[1].json => call.outcome.message = "Login failed"

\* a failed login after a successful one: an error body that carries a
\* token field, rejected with the server's message, the stored token kept
C25_Witness ==
  /\ apiCall # <<>>
  /\ apiCall[1].op = "login"
  /\ apiCall[1].tokenBefore = <<"t1">>
  /\ apiCall[1].fetched # <<>>
  /\ apiCall[1].fetched[1].status = 401
  /\ apiCall[1].fetched[1].token = <<"t2">>
  /\ apiCall[1].outcome = Rejected("Server error")
  /\ token = <<"t1">>

====
